---- MODULE Spec2Model ----
(***************************************************************************)
(* ServiceRecognizerBase (speech recognition session core): the connection *)
(* future, the configured-connection future, the receive loop and the      *)
(* upstream audio pump, with the transport, the authentication and the     *)
(* audio node as environment.                                              *)
(*                                                                         *)
(* The promise library runs continuations synchronously: a continuation    *)
(* attached to a completed promise runs at once, and a promise that        *)
(* completes runs its continuations in the order they were attached.  A    *)
(* handler is therefore one state transformer over the record St, and an   *)
(* action applies the transformer of the whole handler.  The two places    *)
(* where the code leaves that library are steps of their own: the timer of *)
(* line 697 (PumpTimerFires) and the es6-promise of lines 690-693, whose   *)
(* reactions wait in one queue that one job empties (ReactionsRun).        *)
(***************************************************************************)
EXTENDS Integers, Sequences, FiniteSets

\* ---------------------------------------------------------------- bounds
MaxCalls  == 2     \* calls of the user to the public operations
MaxFaults == 1     \* faults of the environment: failed auth, open or attach, drop, read error
MaxSent   == 6     \* messages handed to connection.send
MaxLoad   == 8     \* user calls, faults and messages handed to connection.send, together
MaxOffset == 30000000  \* currentTurnAudioOffset, in ticks of 100 ns
MaxNow    == 6        \* Date.now(), in ms since sendAudio was called
MaxCycles == 3        \* read-and-upload cycles of the paced pump

\* What the bounds above allow at most: every recognize() is a call; a
\* connection is dialed when none is stored or after a fault or a
\* disconnect(); a configured-connection future is created after a
\* recognize(), a failure or a disconnect.
MaxRecog == MaxCalls
MaxConn  == 1 + MaxCalls + MaxFaults
MaxCfg   == 1 + MaxCalls + 2 * MaxFaults

VARIABLES
    privIsDisposed,                      \* line 119
    privMustReportEndOfStream,           \* line 121
    privConnectionPromise,               \* line 116: 0 is null, else the connection id of the future
    privConnectionConfigurationPromise,  \* line 112: 0 is null, else a configured-connection future
    privConnectionId,                    \* line 117: 0 is null
    isContinuousRecognition,             \* privRecognizerConfig.recognitionMode
    privRequestSession,                  \* RequestSession fields
    audioOn,                             \* the audio source is attached and not turned off
    deviceInfoPending,                   \* audioSource.deviceInfo yields a future that is still pending
    connections,                         \* connection id -> connection future and transport state
    numConn,                             \* connection ids minted
    configurations,                      \* configured-connection futures
    numCfg,
    recognitions,                        \* per recognize() call: its future, pump and receive loop
    sent,                                \* every message handed to connection.send, in order
    cancels,                             \* every cancelRecognition call, in order
    events,                              \* per session: the events handed to privRecognizer
    calls,                               \* counters of calls to the collaborators
    reactions,                           \* the es6-promise queue: the pumps whose reaction of lines 690-693 waits for the flush
    pacing                               \* the locals of sendAudio that pace the uploads, lines 629-636

vars == << privIsDisposed, privMustReportEndOfStream, privConnectionPromise,
           privConnectionConfigurationPromise, privConnectionId,
           isContinuousRecognition, privRequestSession, audioOn, deviceInfoPending,
           connections, numConn, configurations, numCfg, recognitions, sent, cancels,
           events, calls, reactions, pacing >>

ConnIds  == 1..MaxConn
CfgIds   == 1..MaxCfg
RecogIds == 1..MaxRecog

\* static telemetryDataEnabled
telemetryDataEnabled == TRUE

\* The whole program state as one record; ret carries a handler's return
\* value and overflow marks a transformer that left the bounds.
St == [ privIsDisposed |-> privIsDisposed,
        privMustReportEndOfStream |-> privMustReportEndOfStream,
        privConnectionPromise |-> privConnectionPromise,
        privConnectionConfigurationPromise |-> privConnectionConfigurationPromise,
        privConnectionId |-> privConnectionId,
        isContinuousRecognition |-> isContinuousRecognition,
        privRequestSession |-> privRequestSession,
        audioOn |-> audioOn,
        deviceInfoPending |-> deviceInfoPending,
        connections |-> connections,
        numConn |-> numConn,
        configurations |-> configurations,
        numCfg |-> numCfg,
        recognitions |-> recognitions,
        sent |-> sent,
        cancels |-> cancels,
        events |-> events,
        calls |-> calls,
        reactions |-> reactions,
        ret |-> 0,
        overflow |-> FALSE ]

Apply(t) ==
    /\ ~t.overflow
    /\ privIsDisposed' = t.privIsDisposed
    /\ privMustReportEndOfStream' = t.privMustReportEndOfStream
    /\ privConnectionPromise' = t.privConnectionPromise
    /\ privConnectionConfigurationPromise' = t.privConnectionConfigurationPromise
    /\ privConnectionId' = t.privConnectionId
    /\ isContinuousRecognition' = t.isContinuousRecognition
    /\ privRequestSession' = t.privRequestSession
    /\ audioOn' = t.audioOn
    /\ deviceInfoPending' = t.deviceInfoPending
    /\ connections' = t.connections
    /\ numConn' = t.numConn
    /\ configurations' = t.configurations
    /\ numCfg' = t.numCfg
    /\ recognitions' = t.recognitions
    /\ sent' = t.sent
    /\ cancels' = t.cancels
    /\ events' = t.events
    /\ calls' = t.calls
    /\ reactions' = t.reactions
    /\ pacing' = pacing

Overflow(s) == [s EXCEPT !.overflow = TRUE]

\* ------------------------------------------------------- initial records
NoPacing ==
    [ phase |-> "idle",              \* idle, reading, deviceInfo, timer, uploading, queued, ended, stalled
      byteLength |-> 0,              \* payload.byteLength of the chunk read, 0 for the end
      isRealTimeAudioSource |-> FALSE, \* the answer of isRealTimeAudioSource() in this cycle, line 671
      avgBytesPerSec |-> 0,          \* audioFormat.avgBytesPerSec
      fastLaneSizeMs |-> 0,          \* SPEECH-TransmitLengthBeforThrottleMs
      now |-> 0,                     \* Date.now()
      nextSendTime |-> 0,            \* line 629
      bytesSent |-> 0,               \* privRequestSession.bytesSent
      sendDelay |-> 0,               \* line 655, of the last chunk
      uploaded |-> "none",           \* the future of the last send: none, pending, ok, fail
      due |-> 0,                     \* when the timer of line 697 may fire
      timers |-> 0,                  \* setTimeout calls, line 697
      chained |-> 0,                 \* continuations attached with no timer, line 687
      cycles |-> 0 ]                 \* readAndUploadCycle calls after the first
NoConnection ==
    [ phase |-> "none",        \* the connection future: none, auth, open, ok, err, stuck
      state |-> "None",        \* ConnectionState of the transport
      expiry |-> FALSE,        \* isUnAuthorized of the connectImpl call that minted it
      disposed |-> FALSE,      \* connection.dispose() was called
      over |-> 0,              \* the live stored future this one was dialed over, 0 if none
      reused |-> FALSE,        \* connectImpl returned this stored future to a later call
      midstream |-> FALSE,     \* the transport dropped it with no configuration in flight on it
      waiters |-> << >> ]      \* continuations attached while pending

NoConfiguration ==
    [ conn |-> 0,              \* the connection future it continues
      stage |-> "none",        \* none, waitConn, cfgSending, ctxSending, ok, err
      idx |-> 0,               \* index in sent of the send it awaits
      after |-> "none",        \* what allowed its creation: null, error, disconnected
      waiters |-> << >> ]

NoRecognition ==
    [ pc |-> "none",           \* recognize(): none, attaching, deviceInfo, waitCfg, launched, failed
      future |-> "none",       \* the future recognize() returned: pending, ok, err
      mark |-> 0,              \* Len(sent) when recognize() was called
      rid |-> 0,               \* the request id startNewRecognition minted for it
      pump |-> "none",         \* none, waitCfg, reading, deviceInfo, timer, uploading, queued, exited, done, failed
      isRealTimeAudioSource |-> FALSE, \* the answer of isRealTimeAudioSource() in the pump's cycle, line 671
      pchunk |-> "none",       \* the chunk the pump read and holds while it awaits deviceInfo
      pconn |-> 0,             \* the connection the pump's cycle captured
      pstart |-> 0,            \* startRecogNumber
      pidx |-> 0,              \* index in sent of the upload it awaits
      loop |-> "none",         \* receive loop: none, waitCfg, reading, done
      lconn |-> 0 ]            \* the connection the loop reads from

\* What privRecognizer was handed for one session (sessionId): the events
\* emitted and whether one came out of order.
NoEvents ==
    [ started |-> FALSE,       \* sessionStarted was emitted
      detected |-> FALSE,      \* a speechStartDetected or speechEndDetected was emitted
      stopped |-> 0,           \* sessionStopped events emitted, counted up to 2
      early |-> FALSE,         \* a detected or stopped event was emitted before sessionStarted
      late |-> FALSE,          \* a detected event was emitted after sessionStopped
      endOffset |-> 0 ]        \* the offset of the last speechEndDetected

\* ------------------------------------------------------- RequestSession
\* createNoDashGuid for a request id: the next unused id.
mintRequestId(s) ==
    [s EXCEPT !.privRequestSession.minted = @ + 1,
              !.privRequestSession.requestId = s.privRequestSession.minted + 1]

recordTelemetry(s) == [s EXCEPT !.privRequestSession.hasTelemetry = TRUE]

startNewRecognition(s) ==
    LET t == mintRequestId(s) IN
    [t EXCEPT !.privRequestSession.isSpeechEnded = FALSE,
              !.privRequestSession.isRecognizing = TRUE,
              !.privRequestSession.currentTurnAudioOffset = 0,
              !.privRequestSession.recogNumber = @ + 1,
              !.privRequestSession.hasTelemetry = TRUE]

onStopRecognizing(s) == [s EXCEPT !.privRequestSession.isRecognizing = FALSE]

onSpeechEnded(s) == [s EXCEPT !.privRequestSession.isSpeechEnded = TRUE]

\* RequestSession.dispose(), called at line 272: the session is not
\* recognizing afterwards.
requestSessionDispose(s) == [s EXCEPT !.privRequestSession.isRecognizing = FALSE]

\* Advances currentTurnAudioOffset by offset.
onServiceRecognized(s, offset) ==
    IF s.privRequestSession.currentTurnAudioOffset + offset > MaxOffset THEN Overflow(s)
    ELSE [s EXCEPT !.privRequestSession.currentTurnAudioOffset = @ + offset]

onServiceTurnEndResponse(s, continuousRecognition) ==
    IF ~continuousRecognition \/ s.privRequestSession.isSpeechEnded
    THEN [s EXCEPT !.privRequestSession.isRecognizing = FALSE]
    ELSE mintRequestId(s)

\* ----------------------------------------------- privRecognizer's events
\* Lines 231-235.
sessionStarted(s) ==
    [s EXCEPT !.events[s.privRequestSession.recogNumber].started = TRUE]

\* Lines 483-487.
speechStartDetected(s) ==
    [s EXCEPT !.events[s.privRequestSession.recogNumber] =
        [@ EXCEPT !.detected = TRUE,
                  !.early = @ \/ ~s.events[s.privRequestSession.recogNumber].started,
                  !.late = @ \/ s.events[s.privRequestSession.recogNumber].stopped > 0]]

\* Lines 509-513: the offset handed over is read after onServiceRecognized.
speechEndDetected(s, Offset) ==
    IF s.overflow THEN s
    ELSE [s EXCEPT !.events[s.privRequestSession.recogNumber] =
        [@ EXCEPT !.detected = TRUE,
                  !.early = @ \/ ~s.events[s.privRequestSession.recogNumber].started,
                  !.late = @ \/ s.events[s.privRequestSession.recogNumber].stopped > 0,
                  !.endOffset = Offset + s.privRequestSession.currentTurnAudioOffset]]

\* Lines 523 and 527-529.
sessionStopped(s) ==
    [s EXCEPT !.events[s.privRequestSession.recogNumber] =
        [@ EXCEPT !.stopped = IF @ < 2 THEN @ + 1 ELSE @,
                  !.early = @ \/ ~s.events[s.privRequestSession.recogNumber].started]]

\* Lines 538-541: the subclass hook is called with a message; calls.hook
\* keeps the paths it was called with.
processTypeSpecificMessages(s, path) ==
    [s EXCEPT !.calls.hook = @ \cup {path}]

\* ------------------------------------------------------------ transport
\* connection.send(message): the message is handed to the transport and the
\* returned future completes later (SendCompletes).
\* The sends of a speech.config message and, after it, of a speech.context
\* message on connection c have both resolved successfully among msgs.
ConfiguredOn(msgs, c) ==
    \E j \in 1..Len(msgs) : \E l \in 1..Len(msgs) :
        /\ j < l
        /\ msgs[j].conn = c /\ msgs[l].conn = c
        /\ msgs[j].type = "Text" /\ msgs[j].path = "speech.config"
        /\ msgs[j].st = "ok"
        /\ msgs[l].type = "Text" /\ msgs[l].path = "speech.context"
        /\ msgs[l].st = "ok"

\* What counts against MaxLoad.
Load(s) == Len(s.sent) + s.calls.user + s.calls.faults

\* The field configured records, at the moment of the hand-over, whether the
\* connection had its speech.config and speech.context sends resolved.
send(s, c, type, path, body, src) ==
    IF Len(s.sent) >= MaxSent \/ Load(s) >= MaxLoad THEN Overflow(s)
    ELSE [s EXCEPT !.sent = Append(@,
             [ conn |-> c, type |-> type, path |-> path,
               rid |-> s.privRequestSession.requestId,
               body |-> body, src |-> src, st |-> "pending",
               configured |-> ConfiguredOn(s.sent, c) ])]

ConnCompleted(s, c) == s.connections[c].phase \in {"ok", "err"}
ConnIsError(s, c)   == s.connections[c].phase = "err"
CfgCompleted(s, g)  == s.configurations[g].stage \in {"ok", "err"}
CfgIsError(s, g)    == s.configurations[g].stage = "err"

\* The stored connection future may be reused: lines 370-373 negated.
ConnReusable(s) ==
    /\ s.privConnectionPromise # 0
    /\ ~( ConnCompleted(s, s.privConnectionPromise)
          /\ ( ConnIsError(s, s.privConnectionPromise)
               \/ s.connections[s.privConnectionPromise].state = "Disconnected" ) )

\* Lines 382-423: mint the ids, start the auth fetch, store the future.
dial(s, isUnAuthorized) ==
    IF s.numConn >= MaxConn THEN Overflow(s)
    ELSE LET c == s.numConn + 1 IN
         [s EXCEPT !.numConn = c,
                   !.privConnectionId = c,
                   !.privConnectionPromise = c,
                   !.privRequestSession.hasTelemetry = TRUE,
                   !.calls.fetch = @ + (IF isUnAuthorized THEN 0 ELSE 1),
                   !.calls.fetchOnExpiry = @ + (IF isUnAuthorized THEN 1 ELSE 0),
                   !.connections[c] =
                       [ NoConnection EXCEPT
                           !.phase = "auth",
                           !.expiry = isUnAuthorized,
                           !.over = IF ConnReusable(s) THEN s.privConnectionPromise ELSE 0 ],
                   !.ret = c]

\* connectImpl without the Disconnected test of line 373: a stored future that
\* resolved to a connection is returned whatever the state of the connection.
connectImplNoRedial(s, isUnAuthorized) ==
    IF s.privConnectionPromise # 0
    THEN IF ConnCompleted(s, s.privConnectionPromise) /\ ConnIsError(s, s.privConnectionPromise)
         THEN dial([s EXCEPT !.privConnectionId = 0, !.privConnectionPromise = 0], FALSE)
         ELSE [s EXCEPT !.ret = s.privConnectionPromise,
                        !.connections[s.privConnectionPromise].reused = TRUE]
    ELSE dial(s, isUnAuthorized)

\* connectImpl without the check of the stored future, lines 370-380.
connectImplNoSingleFlight(s, isUnAuthorized) == dial(s, isUnAuthorized)

connectImpl(s, isUnAuthorized) ==
    IF s.privConnectionPromise # 0
    THEN IF ~ConnReusable(s)
         THEN dial([s EXCEPT !.privConnectionId = 0, !.privConnectionPromise = 0], FALSE)
         ELSE [s EXCEPT !.ret = s.privConnectionPromise,
                        !.connections[s.privConnectionPromise].reused = TRUE]
    ELSE dial(s, isUnAuthorized)

sendSpeechServiceConfig(s, c) == send(s, c, "Text", "speech.config", "json", 0)

sendSpeechContext(s, c) == send(s, c, "Text", "speech.context", "json", 0)

\* The stored configured-connection future may be reused: lines 428-431 negated.
CfgReusable(s) ==
    LET g == s.privConnectionConfigurationPromise IN
    /\ g # 0
    /\ ~( CfgCompleted(s, g)
          /\ ( CfgIsError(s, g)
               \/ s.connections[s.configurations[g].conn].state = "Disconnected" ) )

\* Lines 440-449, given the state t in which connectImpl() returned the
\* connection future t.ret: continue it with the speech.config send, at once
\* when it has resolved, and store the new future.
continueConnection(t, why) ==
    IF t.overflow \/ t.numCfg >= MaxCfg THEN Overflow(t)
    ELSE IF t.connections[t.ret].phase = "ok"
    THEN [sendSpeechServiceConfig(t, t.ret) EXCEPT
              !.numCfg = t.numCfg + 1,
              !.privConnectionConfigurationPromise = t.numCfg + 1,
              !.configurations[t.numCfg + 1] =
                  [ NoConfiguration EXCEPT !.conn = t.ret, !.stage = "cfgSending",
                                           !.idx = Len(t.sent) + 1, !.after = why ],
              !.ret = t.numCfg + 1]
    ELSE [t EXCEPT !.numCfg = t.numCfg + 1,
                   !.privConnectionConfigurationPromise = t.numCfg + 1,
                   !.configurations[t.numCfg + 1] =
                       [ NoConfiguration EXCEPT !.conn = t.ret, !.stage = "waitConn",
                                                !.after = why ],
                   !.connections[t.ret].waiters = Append(@, [k |-> "cfg", id |-> t.numCfg + 1]),
                   !.ret = t.numCfg + 1]

newConfiguration(s, why) == continueConnection(connectImpl(s, FALSE), why)

\* configureConnection without the check of the stored future, lines 428-438.
configureConnectionNoSingleFlight(s) == newConfiguration(s, "null")

configureConnection(s) ==
    LET g == s.privConnectionConfigurationPromise IN
    IF g # 0
    THEN IF ~CfgReusable(s)
         THEN newConfiguration([s EXCEPT !.privConnectionConfigurationPromise = 0],
                               IF CfgIsError(s, g) THEN "error" ELSE "disconnected")
         ELSE [s EXCEPT !.ret = g]
    ELSE newConfiguration(s, "null")

fetchConnection(s) == configureConnection(s)

\* ------------------------------------------------- handlers of the core
RECURSIVE attach(_, _), runContinuation(_, _, _, _), runAll(_, _, _, _),
          sendTelemetryData(_), cancelRecognitionLocal(_, _, _),
          receiveMessage(_, _), readAndUploadCycle(_, _), pumpRejected(_, _)

\* promise.on(w) and its onSuccessContinueWith form, for the future t.ret
\* that fetchConnection() returned in state t: the continuation w runs at
\* once on a completed future and is queued on a pending one.
attach(t, w) ==
    IF t.overflow THEN t
    ELSE IF t.configurations[t.ret].stage = "ok"
    THEN runContinuation(t, w, t.configurations[t.ret].conn, TRUE)
    ELSE IF t.configurations[t.ret].stage = "err"
    THEN runContinuation(t, w, 0, FALSE)
    ELSE [t EXCEPT !.configurations[t.ret].waiters = Append(@, w)]

onConfigured(s, w) == attach(fetchConnection(s), w)

\* Lines 308-332; getTelemetry() empties the accumulator.
sendTelemetryData(s) ==
    IF ~telemetryDataEnabled \/ s.privIsDisposed \/ ~s.privRequestSession.hasTelemetry
    THEN [s EXCEPT !.privRequestSession.hasTelemetry = FALSE]
    ELSE onConfigured([s EXCEPT !.privRequestSession.hasTelemetry = FALSE],
                      [k |-> "telemetry", id |-> 0])

\* Lines 335-341: the abstract cancelRecognition; the call is recorded.
cancelRecognition(s, cancellationReason, errorCode) ==
    [s EXCEPT !.cancels = Append(@,
        [ reason |-> cancellationReason, code |-> errorCode,
          rid |-> s.privRequestSession.requestId,
          recog |-> s.privRequestSession.recogNumber ])]

\* cancelRecognitionLocal without the isRecognizing test of line 350.
cancelRecognitionLocalUnguarded(s, cancellationReason, errorCode) ==
    cancelRecognition(sendTelemetryData(onStopRecognizing(s)),
                      cancellationReason, errorCode)

\* Lines 344-362.
cancelRecognitionLocal(s, cancellationReason, errorCode) ==
    IF s.privRequestSession.isRecognizing
    THEN cancelRecognition(sendTelemetryData(onStopRecognizing(s)),
                           cancellationReason, errorCode)
    ELSE s

\* Lines 452-457 and 547-548: the loop of recognize() call k reads from the
\* configured connection; a failed configuration ends it silently.
receiveMessage(s, k) ==
    onConfigured([s EXCEPT !.recognitions[k].loop = "waitCfg"], [k |-> "loop", id |-> k])

\* Lines 638-645 and 730: the head of a cycle of the pump of call k.
readAndUploadCycle(s, k) ==
    IF /\ ~s.privIsDisposed
       /\ ~s.privRequestSession.isSpeechEnded
       /\ s.privRequestSession.isRecognizing
       /\ s.privRequestSession.recogNumber = s.recognitions[k].pstart
    THEN onConfigured([s EXCEPT !.recognitions[k].pump = "waitCfg"], [k |-> "pump", id |-> k])
    ELSE [s EXCEPT !.recognitions[k].pump = "exited"]

\* Lines 619-636 and 733-735.
sendAudio(s, k) ==
    readAndUploadCycle(
        [s EXCEPT !.recognitions[k].pstart = s.privRequestSession.recogNumber], k)

\* pumpRejected without the error handlers of lines 241-243 and 249-251.
pumpRejectedSilently(s, k) == [s EXCEPT !.recognitions[k].pump = "failed"]

\* deferred.reject(error) of the pump, lines 724 and 728, with the error
\* handlers recognize() attached at lines 241-243 and 249-251.
pumpRejected(s, k) ==
    cancelRecognitionLocal(
        cancelRecognitionLocal([s EXCEPT !.recognitions[k].pump = "failed"],
                               "Error", "RuntimeError"),
        "Error", "RuntimeError")

\* Lines 255-261: the future recognize() call k returned continues the
\* configured-connection future alone.
recognizeSettled(s, k, ok) ==
    [s EXCEPT !.recognitions[k].pc = IF ok THEN "launched" ELSE "failed",
              !.recognitions[k].future = IF ok THEN "ok" ELSE "err"]

\* Lines 230-261: the handlers recognize() call k put on the configured
\* connection.
recognizeConfigured(s, k, ok) ==
    IF ok
    THEN recognizeSettled(sendAudio(receiveMessage(sessionStarted(s), k), k), k, TRUE)
    ELSE recognizeSettled(cancelRecognitionLocal(s, "Error", "ConnectionFailure"), k, FALSE)

\* One continuation of a configured-connection future that completed with
\* connection c (ok) or with an error.
runContinuation(s, w, c, ok) ==
    IF s.overflow THEN s
    ELSE CASE w.k = "telemetry" ->        \* lines 324-331
              IF ok THEN send(s, c, "Text", "telemetry", "json", 0) ELSE s
      [] w.k = "context" ->               \* lines 533-535
              IF ok THEN sendSpeechContext(s, c) ELSE s
      [] w.k = "final" ->                 \* lines 595-603
              IF ok THEN send(s, c, "Binary", "audio", "null", 0) ELSE s
      [] w.k = "dispose" ->               \* lines 183-185
              IF ok THEN [s EXCEPT !.connections[c].disposed = TRUE] ELSE s
      [] w.k = "loop" ->                  \* lines 456-457, 547-548
              IF ok THEN [s EXCEPT !.recognitions[w.id].loop = "reading",
                                   !.recognitions[w.id].lconn = c]
                    ELSE [s EXCEPT !.recognitions[w.id].loop = "done"]
      [] w.k = "pump" ->                  \* lines 645-646, 727-729
              IF ok THEN [s EXCEPT !.recognitions[w.id].pump = "reading",
                                   !.recognitions[w.id].pconn = c]
                    ELSE pumpRejected(s, w.id)
      [] w.k = "recognize" -> recognizeConfigured(s, w.id, ok)

runAll(s, ws, c, ok) ==
    IF ws = << >> THEN s
    ELSE runAll(runContinuation(s, Head(ws), c, ok), Tail(ws), c, ok)

\* The configured-connection future g completes: its continuations run in
\* the order they were attached.
completeConfiguration(s, g, ok) ==
    runAll([s EXCEPT !.configurations[g].stage = IF ok THEN "ok" ELSE "err",
                     !.configurations[g].waiters = << >>],
           s.configurations[g].waiters, s.configurations[g].conn, ok)

\* One continuation of the connection future c. Lines 440-442: send
\* speech.config on the connection, or fail the configuration with it.
\* Lines 292-294: the dispose disconnect() left on a pending future.
connectionContinuation(s, w, c, ok) ==
    IF w.k = "cfg"
    THEN IF ok
         THEN [sendSpeechServiceConfig(s, c) EXCEPT
                   !.configurations[w.id].stage = "cfgSending",
                   !.configurations[w.id].idx = Len(s.sent) + 1]
         ELSE completeConfiguration(s, w.id, FALSE)
    ELSE IF ok THEN [s EXCEPT !.connections[c].disposed = TRUE] ELSE s

RECURSIVE runConnectionWaiters(_, _, _, _)
runConnectionWaiters(s, ws, c, ok) ==
    IF ws = << >> \/ s.overflow THEN s
    ELSE runConnectionWaiters(connectionContinuation(s, Head(ws), c, ok), Tail(ws), c, ok)

\* The connection future c completes.
completeConnection(s, c, ok) ==
    runConnectionWaiters([s EXCEPT !.connections[c].phase = IF ok THEN "ok" ELSE "err",
                                   !.connections[c].waiters = << >>],
                         s.connections[c].waiters, c, ok)

\* ------------------------------------------------------ public surface
\* Lines 213-215: recognize() call number recogNumber awaits the attach.
recognizeAttaching(s, mark) ==
    [s EXCEPT !.recognitions[s.privRequestSession.recogNumber] =
         [ NoRecognition EXCEPT !.pc = "attaching", !.future = "pending", !.mark = mark,
                                !.rid = s.privRequestSession.requestId ]]

\* Lines 197-214, up to the attach of the audio node.
recognize(s, recoMode) ==
    recognizeAttaching(
        connectImpl(
            startNewRecognition(
                [s EXCEPT !.privConnectionConfigurationPromise = 0,
                          !.isContinuousRecognition = (recoMode = "Conversation")]),
            FALSE),
        Len(s.sent))

\* Lines 226-229 and 255-262: audioSource.deviceInfo completed for
\* recognize() call k; on success the handlers of lines 230-261 go on the
\* configured-connection future, on failure the future recognize() returned
\* fails.
recognizeDeviceInfo(s, k, ok) ==
    IF ok
    THEN onConfigured([s EXCEPT !.recognitions[k].pc = "waitCfg"],
                      [k |-> "recognize", id |-> k])
    ELSE recognizeSettled(s, k, FALSE)

\* Lines 215-226: the attach completed; on success recognize() awaits
\* audioSource.deviceInfo, whose continuation runs at once when that future
\* is complete.
attachCompleted(s, k, ok) ==
    IF ok
    THEN IF s.deviceInfoPending
         THEN [s EXCEPT !.audioOn = TRUE, !.recognitions[k].pc = "deviceInfo"]
         ELSE recognizeDeviceInfo([s EXCEPT !.audioOn = TRUE], k, TRUE)
    ELSE recognizeSettled(cancelRecognitionLocal(s, "Error", "ConnectionFailure"), k, FALSE)

\* Lines 592-606.
sendFinalAudio(s) == onConfigured(s, [k |-> "final", id |-> 0])

\* audioSource.turnOff(), line 270.
turnOff(s) == [s EXCEPT !.audioOn = FALSE]

\* Lines 266-274.
stopRecognizing(s) ==
    IF s.privRequestSession.isRecognizing
    THEN requestSessionDispose(
             sendFinalAudio(turnOff(sendTelemetryData(onStopRecognizing(s)))))
    ELSE s

\* Lines 276-278.
connect(s) == connectImpl(s, FALSE)

\* Lines 286-295; reading result() of a null future raises.
disposeStoredConnection(s) ==
    IF s.overflow THEN s
    ELSE IF s.privConnectionPromise = 0 THEN [s EXCEPT !.calls.threw = TRUE]
    ELSE IF ConnCompleted(s, s.privConnectionPromise)
    THEN IF ~ConnIsError(s, s.privConnectionPromise)
         THEN [s EXCEPT !.connections[s.privConnectionPromise].disposed = TRUE,
                        !.privConnectionPromise = 0]
         ELSE s
    ELSE [s EXCEPT !.connections[s.privConnectionPromise].waiters =
                       Append(@, [k |-> "dispose", id |-> 0])]

\* Lines 280-296.
disconnect(s) == disposeStoredConnection(cancelRecognitionLocal(s, "Error", "NoError"))

\* Lines 180-187.
dispose(s) ==
    IF s.privConnectionConfigurationPromise = 0
    THEN [s EXCEPT !.privIsDisposed = TRUE]
    ELSE IF s.configurations[s.privConnectionConfigurationPromise].stage = "ok"
    THEN [s EXCEPT !.privIsDisposed = TRUE,
                   !.connections[s.configurations[
                       s.privConnectionConfigurationPromise].conn].disposed = TRUE]
    ELSE IF s.configurations[s.privConnectionConfigurationPromise].stage = "err"
    THEN [s EXCEPT !.privIsDisposed = TRUE]
    ELSE [s EXCEPT !.privIsDisposed = TRUE,
                   !.configurations[s.privConnectionConfigurationPromise].waiters =
                       Append(@, [k |-> "dispose", id |-> 0])]

\* ------------------------------------------------- completions (handlers)
\* Lines 390-408: the auth fetch completed.
authCompleted(s, c, ok) ==
    IF ok
    THEN [s EXCEPT !.privRequestSession.hasTelemetry = TRUE,
                   !.connections[c].phase = "open",
                   !.connections[c].state = "Connecting",
                   !.calls.open = @ + 1]
    ELSE completeConnection(recordTelemetry(s), c, FALSE)

\* Lines 414-415: the future of c continues the future connectImpl(true)
\* returned in state t; when that is the future of c itself, it never completes.
expiryRetry(t, c) ==
    IF t.overflow THEN t
    ELSE [t EXCEPT !.connections[c].phase = IF t.ret = c THEN "stuck" ELSE "chained"]

\* Lines 408-420: connection.open() answered with a status code.
openCompleted(s, c, statusCode) ==
    IF statusCode = 200
    THEN completeConnection(
             recordTelemetry([s EXCEPT !.connections[c].state = "Connected"]), c, TRUE)
    ELSE IF statusCode = 403 /\ ~s.connections[c].expiry
    THEN expiryRetry(connectImpl([s EXCEPT !.connections[c].state = "Disconnected"], TRUE), c)
    ELSE completeConnection(
             recordTelemetry([s EXCEPT !.connections[c].state = "Disconnected"]), c, FALSE)

\* The configured-connection futures that await send i.
Awaiting(s, i) ==
    { g \in 1..s.numCfg : /\ s.configurations[g].idx = i
                          /\ s.configurations[g].stage \in {"cfgSending", "ctxSending"} }

\* Lines 442-446: the continuation of the send that configuration g awaited.
configurationSendCompleted(s, g, ok) ==
    IF ~ok THEN completeConfiguration(s, g, FALSE)
    ELSE IF s.configurations[g].stage = "cfgSending"
    THEN [sendSpeechContext(s, s.configurations[g].conn) EXCEPT
              !.configurations[g].stage = "ctxSending",
              !.configurations[g].idx = Len(s.sent) + 1]
    ELSE completeConfiguration(s, g, TRUE)

\* The device types an audio source reports; line 609 tests for Microphones.
DeviceTypes == {"Microphones", "File"}

\* Lines 607-612: the source is realtime when its device is a microphone.
isRealTimeAudioSource(deviceInfo) == deviceInfo = "Microphones"

\* The pumps whose continuation of line 687 or 698 is attached to the
\* pending future of send i.
Uploading(s, i) ==
    { k \in RecogIds : s.recognitions[k].pump = "uploading" /\ s.recognitions[k].pidx = i }

\* Lines 687-694 and 698-703: the continuation the pump of call k attached
\* to the future of its send runs when that future completes, whatever the
\* outcome.  After a realtime answer it resolves an es6-promise, whose
\* reaction (readAndUploadCycle) is queued for the library's next flush;
\* otherwise it runs readAndUploadCycle itself.
uploadContinued(s, k) ==
    IF s.recognitions[k].isRealTimeAudioSource
    THEN [s EXCEPT !.recognitions[k].pump = "queued", !.reactions = Append(@, k)]
    ELSE readAndUploadCycle(s, k)

\* The future of send i completed: its continuations run in the same call,
\* that of a configuration (lines 442-446) or that of a pump (lines 687, 698).
sendCompleted(s, i, ok) ==
    IF Awaiting(s, i) # {}
    THEN configurationSendCompleted(
             [s EXCEPT !.sent[i].st = IF ok THEN "ok" ELSE "fail"],
             CHOOSE g \in Awaiting(s, i) : TRUE, ok)
    ELSE IF Uploading(s, i) # {}
    THEN uploadContinued([s EXCEPT !.sent[i].st = IF ok THEN "ok" ELSE "fail"],
                         CHOOSE k \in Uploading(s, i) : TRUE)
    ELSE [s EXCEPT !.sent[i].st = IF ok THEN "ok" ELSE "fail"]

\* Lines 697-704: the callback of setTimeout attaches the continuation to
\* the future of the send; on a completed future it runs at once.
timerFired(s, k) ==
    IF s.sent[s.recognitions[k].pidx].st = "pending"
    THEN [s EXCEPT !.recognitions[k].pump = "uploading"]
    ELSE readAndUploadCycle(s, k)

\* The flush of the es6-promise queue: one job runs every queued reaction,
\* in the order they were queued.
RECURSIVE runReactions(_, _)
runReactions(s, queue) ==
    IF queue = << >> THEN s
    ELSE runReactions(readAndUploadCycle(s, Head(queue)), Tail(queue))

flush(s) == runReactions([s EXCEPT !.reactions = << >>], s.reactions)

\* Lines 671-711: the continuation of isRealTimeAudioSource() sends the
\* chunk the pump of call k read.  For a chunk that is not the end a
\* realtime answer attaches the continuation to the pending future of the
\* send (line 687); any other answer starts the timer of line 697.
audioUpload(s, k, chunk, deviceInfo) ==
    IF chunk = "end"
    THEN [onSpeechEnded(send(s, s.recognitions[k].pconn, "Binary", "audio", "null", k))
             EXCEPT !.recognitions[k].pump = "done", !.recognitions[k].pchunk = "none"]
    ELSE [send(s, s.recognitions[k].pconn, "Binary", "audio", "data", k)
             EXCEPT !.recognitions[k].pump =
                        IF isRealTimeAudioSource(deviceInfo) THEN "uploading" ELSE "timer",
                    !.recognitions[k].isRealTimeAudioSource = isRealTimeAudioSource(deviceInfo),
                    !.recognitions[k].pchunk = "none",
                    !.recognitions[k].pidx = Len(s.sent) + 1]

\* Lines 607-618 and 671: isRealTimeAudioSource() continues
\* audioSource.deviceInfo with onSuccessContinueWith; when deviceInfo fails
\* nothing runs, and the pump stops with its future pending.
pumpDeviceInfo(s, k, ok, deviceInfo) ==
    IF ok
    THEN audioUpload(s, k, s.recognitions[k].pchunk, deviceInfo)
    ELSE [s EXCEPT !.recognitions[k].pump = "exited", !.recognitions[k].pchunk = "none"]

\* Lines 648-671 for a chunk or the end of the stream.
audioChunkRead(s, k, chunk, deviceInfo) ==
    IF s.privRequestSession.isSpeechEnded
    THEN [s EXCEPT !.recognitions[k].pump = "done"]
    ELSE IF s.deviceInfoPending
    THEN [s EXCEPT !.recognitions[k].pump = "deviceInfo", !.recognitions[k].pchunk = chunk]
    ELSE audioUpload(s, k, chunk, deviceInfo)

\* audioReadCompleted without the isSpeechEnded test of line 716: a read
\* error always rejects.
audioReadCompletedAlwaysRejects(s, k, chunk, deviceInfo) ==
    IF chunk = "error"
    THEN pumpRejected(s, k)
    ELSE audioChunkRead(s, k, chunk, deviceInfo)

\* Lines 646-726: audioStreamNode.read() completed for the pump of call k;
\* deviceInfo is what a completed audioSource.deviceInfo reports.
audioReadCompleted(s, k, chunk, deviceInfo) ==
    IF chunk = "error"
    THEN IF s.privRequestSession.isSpeechEnded
         THEN [s EXCEPT !.recognitions[k].pump = "done"]
         ELSE pumpRejected(s, k)
    ELSE audioChunkRead(s, k, chunk, deviceInfo)

\* reportEndOfStream without line 519: the flag stays armed.
reportEndOfStreamKeepsFlag(s) ==
    IF s.privRequestSession.isSpeechEnded /\ s.privMustReportEndOfStream
    THEN cancelRecognitionLocal(s, "EndOfStream", "NoError")
    ELSE s

\* Lines 518-521.
reportEndOfStream(s) ==
    IF s.privRequestSession.isSpeechEnded /\ s.privMustReportEndOfStream
    THEN cancelRecognitionLocal([s EXCEPT !.privMustReportEndOfStream = FALSE],
                                "EndOfStream", "NoError")
    ELSE s

\* turnEnded that re-sends the context at a final turn.end too.
turnEndedAlwaysContext(s, k) ==
    IF ~s.isContinuousRecognition \/ s.privRequestSession.isSpeechEnded
    THEN [onConfigured(sessionStopped(s), [k |-> "context", id |-> 0])
             EXCEPT !.recognitions[k].loop = "done"]
    ELSE receiveMessage(
             processTypeSpecificMessages(onConfigured(s, [k |-> "context", id |-> 0]),
                                         "turn.end"), k)

\* turnEnded without the return of line 531: the loop goes on after a final
\* turn.end as after any other.
turnEndedKeepsReading(s, k) ==
    IF ~s.isContinuousRecognition \/ s.privRequestSession.isSpeechEnded
    THEN receiveMessage(sessionStopped(s), k)
    ELSE receiveMessage(
             processTypeSpecificMessages(onConfigured(s, [k |-> "context", id |-> 0]),
                                         "turn.end"), k)

\* Lines 526-545, after onServiceTurnEndResponse.
turnEnded(s, k) ==
    IF ~s.isContinuousRecognition \/ s.privRequestSession.isSpeechEnded
    THEN [sessionStopped(s) EXCEPT !.recognitions[k].loop = "done"]
    ELSE receiveMessage(
             processTypeSpecificMessages(onConfigured(s, [k |-> "context", id |-> 0]),
                                         "turn.end"), k)

\* Lines 515-536.
turnEnd(s, k) ==
    turnEnded(
        onServiceTurnEndResponse(reportEndOfStream(sendTelemetryData(s)),
                                 s.isContinuousRecognition),
        k)

\* Lines 490-514: speech.enddetected with Offset in its body.
speechEndDetectedMessage(s, Offset) ==
    speechEndDetected(
        IF s.isContinuousRecognition
        THEN onServiceRecognized(s, Offset + s.privRequestSession.currentTurnAudioOffset)
        ELSE s,
        Offset)

\* Request ids are hex strings; id n written with upper-case letters is
\* modelled as -n, and createNoDashGuid yields lower case.
toLowerCase(rid) == IF rid < 0 THEN -rid ELSE rid

\* Line 475.
SameRequestId(s, m) ==
    toLowerCase(m.rid) = toLowerCase(s.privRequestSession.requestId)

\* messageDispatch without the comparison of line 475.
messageDispatchUnfiltered(s, k, m) ==
    IF s.privIsDisposed \/ ~s.privRequestSession.isRecognizing
    THEN [s EXCEPT !.recognitions[k].loop = "done"]
    ELSE IF m.path = "turn.end"
    THEN turnEnd(s, k)
    ELSE IF m.path = "speech.startdetected"
    THEN receiveMessage(speechStartDetected(s), k)
    ELSE IF m.path = "speech.enddetected"
    THEN receiveMessage(speechEndDetectedMessage(s, m.Offset), k)
    ELSE IF m.path = "turn.start"
    THEN receiveMessage([s EXCEPT !.privMustReportEndOfStream = TRUE], k)
    ELSE IF m.path # "none"
    THEN receiveMessage(processTypeSpecificMessages(s, m.path), k)
    ELSE receiveMessage(s, k)

\* Lines 458-546: connection.read() completed for the loop of call k with
\* message m (path, request id and the Offset of its body), or with no
\* message (path "none").
messageDispatch(s, k, m) ==
    IF s.privIsDisposed \/ ~s.privRequestSession.isRecognizing
    THEN [s EXCEPT !.recognitions[k].loop = "done"]
    ELSE IF m.path = "none" \/ ~SameRequestId(s, m)
    THEN receiveMessage(s, k)
    ELSE IF m.path = "turn.end"
    THEN turnEnd(s, k)
    ELSE IF m.path = "speech.startdetected"
    THEN receiveMessage(speechStartDetected(s), k)
    ELSE IF m.path = "speech.enddetected"
    THEN receiveMessage(speechEndDetectedMessage(s, m.Offset), k)
    ELSE IF m.path = "turn.start"
    THEN receiveMessage([s EXCEPT !.privMustReportEndOfStream = TRUE], k)
    ELSE receiveMessage(processTypeSpecificMessages(s, m.path), k)

\* The transport's message event goes to the telemetry listener, then the
\* read completes.
messageRead(s, k, m) ==
    messageDispatch(IF m.path = "none" THEN s ELSE recordTelemetry(s), k, m)

\* ---------------------------------------------------------------- state
Init ==
    /\ privIsDisposed = FALSE
    /\ privMustReportEndOfStream = FALSE
    /\ privConnectionPromise = 0
    /\ privConnectionConfigurationPromise = 0
    /\ privConnectionId = 0
    /\ isContinuousRecognition = FALSE
    /\ privRequestSession = [ requestId |-> 0, minted |-> 0, recogNumber |-> 0,
                              isRecognizing |-> FALSE, isSpeechEnded |-> FALSE,
                              currentTurnAudioOffset |-> 0,
                              hasTelemetry |-> FALSE ]
    /\ audioOn = FALSE
    /\ deviceInfoPending \in BOOLEAN
    /\ connections = [c \in ConnIds |-> NoConnection]
    /\ numConn = 0
    /\ configurations = [g \in CfgIds |-> NoConfiguration]
    /\ numCfg = 0
    /\ recognitions = [k \in RecogIds |-> NoRecognition]
    /\ sent = << >>
    /\ cancels = << >>
    /\ events = [r \in RecogIds |-> NoEvents]
    /\ calls = [ fetch |-> 0, fetchOnExpiry |-> 0, open |-> 0, threw |-> FALSE, faults |-> 0, user |-> 0,
                 hook |-> {} ]
    /\ reactions = << >>
    /\ pacing = NoPacing

RecognitionModes == {"Interactive", "Conversation"}
StatusCodes == {200, 403, 500}
Chunks == {"data", "end", "error"}
Paths == {"turn.start", "speech.startdetected", "speech.enddetected", "turn.end",
          "speech.phrase"}

\* The paths the core handles itself, lines 477-536.
HandledPaths == {"turn.start", "speech.startdetected", "speech.enddetected", "turn.end"}

\* The request ids the service has seen on connection c.
SeenRids(c) == { sent[i].rid : i \in { j \in 1..Len(sent) : sent[j].conn = c } }

\* The same ids as the service may write them: in lower or in upper case.
MessageRids(c) == SeenRids(c) \cup { -r : r \in SeenRids(c) }

\* ------------------------------------------------------- the user's calls
\* A call of the user counts against MaxCalls and MaxLoad; no public
\* operation tests privIsDisposed.
User(t) ==
    /\ calls.user < MaxCalls
    /\ Load(St) < MaxLoad
    /\ Apply([t EXCEPT !.calls.user = @ + 1])

Recognize(recoMode) ==
    /\ privRequestSession.recogNumber < MaxRecog
    /\ User(recognize(St, recoMode))

StopRecognizing == User(stopRecognizing(St))

Connect == User(connect(St))

Disconnect == User(disconnect(St))

Dispose == User(dispose(St))

\* ------------------------------------------------------- the environment
\* A step of the environment that is a fault counts against MaxFaults and
\* MaxLoad.
Env(t, fault) ==
    /\ fault => calls.faults < MaxFaults /\ Load(St) < MaxLoad
    /\ Apply([t EXCEPT !.calls.faults = @ + (IF fault THEN 1 ELSE 0)])

AttachCompletes(k, ok) ==
    /\ recognitions[k].pc = "attaching"
    /\ Env(attachCompleted(St, k, ok), ~ok)

\* audioSource.deviceInfo completes for recognize() call k or for its pump,
\* reporting the device type deviceInfo.
DeviceInfoCompletes(k, ok, deviceInfo) ==
    \/ /\ recognitions[k].pc = "deviceInfo"
       /\ Env(recognizeDeviceInfo(St, k, ok), ~ok)
    \/ /\ recognitions[k].pump = "deviceInfo"
       /\ Env(pumpDeviceInfo(St, k, ok, deviceInfo), ~ok)

AuthCompletes(c, ok) ==
    /\ connections[c].phase = "auth"
    /\ Env(authCompleted(St, c, ok), ~ok)

OpenCompletes(c, statusCode) ==
    /\ connections[c].phase = "open"
    /\ Env(openCompleted(St, c, statusCode), statusCode # 200)

\* No configured-connection future awaits a send on connection c.
Configured(c) ==
    \A g \in 1..numCfg :
        configurations[g].conn = c => configurations[g].stage \in {"ok", "err"}

\* The transport loses the connection.
TransportDrops(c) ==
    /\ connections[c].state = "Connected"
    /\ Env([St EXCEPT !.connections[c].state = "Disconnected",
                      !.connections[c].midstream = Configured(c)], TRUE)

\* The transport completes its sends in the order they were handed over: a
\* send succeeds on a connected transport and fails on a disconnected one.
SendCompletes(i) ==
    /\ i \in 1..Len(sent)
    /\ sent[i].st = "pending"
    /\ \A j \in 1..(i - 1) : sent[j].conn = sent[i].conn => sent[j].st # "pending"
    /\ Apply(sendCompleted(St, i, connections[sent[i].conn].state = "Connected"))

\* The audio node delivers a chunk, the end of the stream or an error; a
\* source that was turned off delivers no more data.
AudioReadCompletes(k, chunk, deviceInfo) ==
    /\ recognitions[k].pump = "reading"
    /\ chunk = "data" => audioOn
    /\ Env(audioReadCompleted(St, k, chunk, deviceInfo), chunk = "error")

\* The timer of line 697 fires for the pump of call k.
PumpTimerFires(k) ==
    /\ recognitions[k].pump = "timer"
    /\ Apply(timerFired(St, k))

\* The es6-promise library flushes its queue: every reaction queued by the
\* continuations of line 687 runs in this one job.
ReactionsRun ==
    /\ reactions # << >>
    /\ Apply(flush(St))

\* The service sends a message for a request id it has seen on the connection.
MessageArrives(k, path, rid, Offset) ==
    /\ recognitions[k].loop = "reading"
    /\ connections[recognitions[k].lconn].state = "Connected"
    /\ Apply(messageRead(St, k, [path |-> path, rid |-> rid, Offset |-> Offset]))

\* A disconnected transport drains its read queue: the read yields no message.
ReadDrains(k) ==
    /\ recognitions[k].loop = "reading"
    /\ connections[recognitions[k].lconn].state = "Disconnected"
    /\ Apply(messageRead(St, k, [path |-> "none", rid |-> 0, Offset |-> 0]))

Next ==
    \/ \E m \in RecognitionModes : Recognize(m)
    \/ StopRecognizing
    \/ Connect
    \/ Disconnect
    \/ Dispose
    \/ \E k \in RecogIds, ok \in BOOLEAN : AttachCompletes(k, ok)
    \/ \E c \in ConnIds, ok \in BOOLEAN : AuthCompletes(c, ok)
    \/ \E c \in ConnIds, code \in StatusCodes : OpenCompletes(c, code)
    \/ \E c \in ConnIds : TransportDrops(c)
    \/ \E i \in 1..MaxSent : SendCompletes(i)
    \/ \E k \in RecogIds, chunk \in Chunks : AudioReadCompletes(k, chunk, "File")
    \/ \E k \in RecogIds : PumpTimerFires(k)
    \/ \E k \in RecogIds, path \in HandledPaths :
           \E rid \in SeenRids(recognitions[k].lconn) : MessageArrives(k, path, rid, 0)
    \/ \E k \in RecogIds : ReadDrains(k)

\* The recognizer on a file source whose deviceInfo is a completed future
\* at every use: the continuations of lines 226 and 671 run in the step that
\* reaches them, and every chunk that is not the end starts the timer of
\* line 697.
InitCompleted == Init /\ ~deviceInfoPending

Spec == InitCompleted /\ [][Next]_vars

\* The recognizer on a microphone, deviceInfo completed at every use: no
\* timer is started, the continuation of line 687 queues the next cycle and
\* the flush of the es6-promise queue runs it, for every pump queued.  The
\* properties stated for Spec hold in this universe too, and in the two
\* suspending ones below.
NextRealtime ==
    \/ \E m \in RecognitionModes : Recognize(m)
    \/ StopRecognizing
    \/ Connect
    \/ Disconnect
    \/ Dispose
    \/ \E k \in RecogIds, ok \in BOOLEAN : AttachCompletes(k, ok)
    \/ \E c \in ConnIds, ok \in BOOLEAN : AuthCompletes(c, ok)
    \/ \E c \in ConnIds, code \in StatusCodes : OpenCompletes(c, code)
    \/ \E c \in ConnIds : TransportDrops(c)
    \/ \E i \in 1..MaxSent : SendCompletes(i)
    \/ \E k \in RecogIds, chunk \in Chunks : AudioReadCompletes(k, chunk, "Microphones")
    \/ ReactionsRun
    \/ \E k \in RecogIds, path \in HandledPaths :
           \E rid \in SeenRids(recognitions[k].lconn) : MessageArrives(k, path, rid, 0)
    \/ \E k \in RecogIds : ReadDrains(k)

SpecRealtime == InitCompleted /\ [][NextRealtime]_vars

\* The recognizer on an audio source whose deviceInfo is a pending future at
\* every use: each await of it is a suspension point.  What a source with a
\* completed deviceInfo does in one step is done here in two.
InitSuspending == Init /\ deviceInfoPending

NextSuspending ==
    \/ Next
    \/ \E k \in RecogIds, ok \in BOOLEAN : DeviceInfoCompletes(k, ok, "File")

SpecSuspending == InitSuspending /\ [][NextSuspending]_vars

NextRealtimeSuspending ==
    \/ NextRealtime
    \/ \E k \in RecogIds, ok \in BOOLEAN : DeviceInfoCompletes(k, ok, "Microphones")

SpecRealtimeSuspending == InitSuspending /\ [][NextRealtimeSuspending]_vars

\* One recognition on a transport without faults, with a service whose
\* speech.enddetected bodies carry an Offset and that also sends the
\* messages meant for the subclass.
Offsets == {0, 10000000}

RecognizeOnce(recoMode) == calls.user = 0 /\ Recognize(recoMode)

NextOffsets ==
    \/ \E m \in RecognitionModes : RecognizeOnce(m)
    \/ \E k \in RecogIds : AttachCompletes(k, TRUE)
    \/ \E k \in RecogIds : DeviceInfoCompletes(k, TRUE, "File")
    \/ \E c \in ConnIds : AuthCompletes(c, TRUE)
    \/ \E c \in ConnIds : OpenCompletes(c, 200)
    \/ \E i \in 1..MaxSent : SendCompletes(i)
    \/ \E k \in RecogIds, chunk \in {"data", "end"} : AudioReadCompletes(k, chunk, "File")
    \/ \E k \in RecogIds : PumpTimerFires(k)
    \/ \E k \in RecogIds, path \in Paths, Offset \in Offsets :
           \E rid \in MessageRids(recognitions[k].lconn) : MessageArrives(k, path, rid, Offset)

SpecOffsets == Init /\ [][NextOffsets]_vars

\* One recognition on a source whose deviceInfo is pending at every use and
\* may be rejected, on a transport without faults.
NextDeviceInfo ==
    \/ \E m \in RecognitionModes : RecognizeOnce(m)
    \/ \E k \in RecogIds : AttachCompletes(k, TRUE)
    \/ \E k \in RecogIds, ok \in BOOLEAN, deviceInfo \in DeviceTypes :
           DeviceInfoCompletes(k, ok, deviceInfo)
    \/ \E c \in ConnIds : AuthCompletes(c, TRUE)
    \/ \E c \in ConnIds : OpenCompletes(c, 200)
    \/ \E i \in 1..MaxSent : SendCompletes(i)
    \/ \E k \in RecogIds, chunk \in {"data", "end"}, deviceInfo \in DeviceTypes :
           AudioReadCompletes(k, chunk, deviceInfo)
    \/ \E k \in RecogIds : PumpTimerFires(k)
    \/ ReactionsRun
    \/ \E k \in RecogIds, path \in HandledPaths :
           \E rid \in SeenRids(recognitions[k].lconn) : MessageArrives(k, path, rid, 0)

SpecDeviceInfo == InitSuspending /\ [][NextDeviceInfo]_vars

\* ------------------------------------------------- the pacing of sendAudio
\* The pump of one recognition on a connection that stays configured: only
\* the locals of sendAudio, the clock, the timer of line 697 and the future
\* of the last send change.  The rates and chunk lengths are those for which
\* the floating-point divisions of lines 635 and 673 are exact.
Rates       == {1000, 2000}
FastLanes   == {0, 4, 6}
ByteLengths == {4, 8}

Max(a, b) == IF a >= b THEN a ELSE b

\* Line 635.
maxSendUnthrottledBytes(p) == (p.avgBytesPerSec \div 1000) * p.fastLaneSizeMs

\* RequestSession.onAudioSent, called at line 662.
onAudioSent(p, byteLength) == [p EXCEPT !.bytesSent = @ + byteLength]

\* sendDelay that throttles from the first byte on.
sendDelayNoFastLane(p) == Max(0, p.nextSendTime - p.now)

\* sendDelay of lines 664-668, p being the locals after onAudioSent.
sendDelay(p) ==
    IF maxSendUnthrottledBytes(p) >= p.bytesSent
    THEN 0
    ELSE Max(0, p.nextSendTime - p.now)

\* Lines 672-674.
nextSendTime(p, byteLength) == p.now + (byteLength * 1000) \div (p.avgBytesPerSec * 2)

\* Lines 686-705 for a chunk that is not the end: a realtime answer attaches
\* the continuation to the send's future at once (line 687), any other
\* answer arms a timer of sendDelay (line 697).
schedule(p) ==
    IF p.isRealTimeAudioSource
    THEN [p EXCEPT !.phase = "uploading", !.chained = @ + 1]
    ELSE [p EXCEPT !.phase = "timer", !.due = p.now + p.sendDelay, !.timers = @ + 1]

\* Lines 671-711: the continuation of isRealTimeAudioSource(), which is
\* asked in every cycle, for the chunk the pump holds; nextSendTime is
\* computed from the clock at this moment.
upload(p, deviceInfo) ==
    IF p.byteLength = 0
    THEN [p EXCEPT !.phase = "ended", !.uploaded = "pending"]
    ELSE schedule([p EXCEPT !.isRealTimeAudioSource = isRealTimeAudioSource(deviceInfo),
                            !.nextSendTime = nextSendTime(p, p.byteLength),
                            !.uploaded = "pending"])

\* Lines 659-669 for a chunk of byteLength bytes: sendDelay is computed
\* from the clock at this moment.
chunkRead(p, byteLength) ==
    [onAudioSent(p, byteLength) EXCEPT
         !.sendDelay = sendDelay(onAudioSent(p, byteLength)),
         !.byteLength = byteLength,
         !.phase = "deviceInfo"]

\* Lines 656-658 for the end of the stream.
endRead(p) == [p EXCEPT !.sendDelay = 0, !.byteLength = 0, !.phase = "deviceInfo"]

\* readAndUploadCycle called from a continuation of lines 687-704.
nextCycle(p) == [p EXCEPT !.phase = "reading", !.cycles = @ + 1]

\* Lines 687-694 when the send's future completes: the continuation hands
\* readAndUploadCycle to a native promise, whose reaction is a job of its
\* own.
queueCycle(p) == [p EXCEPT !.phase = "queued"]

\* The send's future completes with a continuation attached to it: the one
\* of line 687 queues the next cycle, the one of line 698 runs it.
uploadedContinues(p) ==
    IF p.isRealTimeAudioSource THEN queueCycle(p) ELSE nextCycle(p)

InitPacing ==
    /\ privIsDisposed = FALSE
    /\ privMustReportEndOfStream = FALSE
    /\ privConnectionPromise = 0
    /\ privConnectionConfigurationPromise = 0
    /\ privConnectionId = 0
    /\ isContinuousRecognition = FALSE
    /\ privRequestSession = [ requestId |-> 0, minted |-> 0, recogNumber |-> 0,
                              isRecognizing |-> FALSE, isSpeechEnded |-> FALSE,
                              currentTurnAudioOffset |-> 0,
                              hasTelemetry |-> FALSE ]
    /\ audioOn = FALSE
    /\ deviceInfoPending \in BOOLEAN
    /\ connections = [c \in ConnIds |-> NoConnection]
    /\ numConn = 0
    /\ configurations = [g \in CfgIds |-> NoConfiguration]
    /\ numCfg = 0
    /\ recognitions = [k \in RecogIds |-> NoRecognition]
    /\ sent = << >>
    /\ cancels = << >>
    /\ events = [r \in RecogIds |-> NoEvents]
    /\ calls = [ fetch |-> 0, fetchOnExpiry |-> 0, open |-> 0, threw |-> FALSE, faults |-> 0, user |-> 0,
                 hook |-> {} ]
    /\ reactions = << >>
    /\ \E rate \in Rates, lane \in FastLanes :
           pacing = [NoPacing EXCEPT !.phase = "reading",
                                     !.avgBytesPerSec = rate,
                                     !.fastLaneSizeMs = lane]

PacingOnly(p) ==
    /\ pacing' = p
    /\ UNCHANGED << privIsDisposed, privMustReportEndOfStream, privConnectionPromise,
                    privConnectionConfigurationPromise, privConnectionId,
                    isContinuousRecognition, privRequestSession, audioOn, connections,
                    numConn, configurations, numCfg, recognitions, sent, cancels, events,
                    calls, reactions, deviceInfoPending >>

\* The audio node yields a chunk of byteLength bytes, lines 646-671; the
\* continuation of isRealTimeAudioSource() runs at once, with the device
\* type the source reports, when deviceInfo is complete.
ChunkRead(byteLength) ==
    /\ pacing.phase = "reading"
    /\ pacing.cycles < MaxCycles
    /\ IF deviceInfoPending
       THEN PacingOnly(chunkRead(pacing, byteLength))
       ELSE \E deviceInfo \in DeviceTypes :
                PacingOnly(upload(chunkRead(pacing, byteLength), deviceInfo))

\* The audio node yields the end of the stream.
EndRead ==
    /\ pacing.phase = "reading"
    /\ IF deviceInfoPending
       THEN PacingOnly(endRead(pacing))
       ELSE \E deviceInfo \in DeviceTypes : PacingOnly(upload(endRead(pacing), deviceInfo))

\* audioSource.deviceInfo completes for the pump with a device type: the
\* chunk is sent.
PacedDeviceInfoCompletes(deviceInfo) ==
    /\ pacing.phase = "deviceInfo"
    /\ PacingOnly(upload(pacing, deviceInfo))

\* audioSource.deviceInfo is rejected: nothing runs, line 671 has no error
\* handler.
PacedDeviceInfoFails ==
    /\ pacing.phase = "deviceInfo"
    /\ PacingOnly([pacing EXCEPT !.phase = "stalled"])

\* The timer of line 697 fires: the continuation is attached to the send's
\* future and runs at once when that future is complete.
TimerFires ==
    /\ pacing.phase = "timer"
    /\ pacing.now >= pacing.due
    /\ PacingOnly(IF pacing.uploaded = "pending"
                  THEN [pacing EXCEPT !.phase = "uploading"]
                  ELSE nextCycle(pacing))

\* The send's future completes; a continuation attached to it runs.
UploadCompletes(ok) ==
    /\ pacing.uploaded = "pending"
    /\ PacingOnly(IF pacing.phase = "uploading"
                  THEN uploadedContinues([pacing EXCEPT !.uploaded = IF ok THEN "ok" ELSE "fail"])
                  ELSE [pacing EXCEPT !.uploaded = IF ok THEN "ok" ELSE "fail"])

\* The job queued at lines 690-693 runs: the next cycle starts.
NativeJobRuns ==
    /\ pacing.phase = "queued"
    /\ PacingOnly(nextCycle(pacing))

\* A millisecond passes.
Tick ==
    /\ pacing.phase \notin {"idle", "ended", "stalled"}
    /\ pacing.now < MaxNow
    /\ PacingOnly([pacing EXCEPT !.now = @ + 1])

NextPacing ==
    \/ \E byteLength \in ByteLengths : ChunkRead(byteLength)
    \/ EndRead
    \/ \E deviceInfo \in DeviceTypes : PacedDeviceInfoCompletes(deviceInfo)
    \/ PacedDeviceInfoFails
    \/ TimerFires
    \/ \E ok \in BOOLEAN : UploadCompletes(ok)
    \/ NativeJobRuns
    \/ Tick

SpecPacing == InitPacing /\ [][NextPacing]_vars

\* ------------------------------------------------------------ the claims
Sent == 1..Len(sent)

IsAudio(i) == sent[i].type = "Binary" /\ sent[i].path = "audio"

\* Message i is the first Text message on its connection.
FirstText(i) ==
    /\ sent[i].type = "Text"
    /\ \A j \in 1..(i - 1) : sent[j].conn = sent[i].conn => sent[j].type # "Text"

\* A speech.context send for the request id of message i has resolved on the
\* connection of message i before message i was handed over.
ContextResolvedBefore(i) ==
    \E j \in 1..(i - 1) : /\ sent[j].conn = sent[i].conn
                          /\ sent[j].path = "speech.context"
                          /\ sent[j].rid = sent[i].rid
                          /\ sent[j].st = "ok"

\* C1: on every connection the first Text message is speech.config, and no
\* Binary audio frame carrying request id R is sent on it before a
\* speech.context send for R has resolved on it.
C1_ConfigContextAudioOrder ==
    /\ \A i \in Sent : FirstText(i) => sent[i].path = "speech.config"
    /\ \A i \in Sent : IsAudio(i) => ContextResolvedBefore(i)

ConfigCount(c) ==
    Cardinality({ i \in Sent : sent[i].conn = c /\ sent[i].path = "speech.config" })

\* C2: speech.config is sent at most once per connection id, over any
\* sequence of recognize() calls, turns and stop or cancel operations that
\* reuse the same open connection.
C2_OneConfigPerConnection == \A c \in ConnIds : ConfigCount(c) <= 1

\* C2, amended: speech.config is sent once per configured-connection future,
\* and recognize() clears the stored one: the number of speech.config
\* messages sent on one connection never exceeds the number of recognize()
\* calls made so far.
C2_OneConfigPerRecognize ==
    \A c \in ConnIds : ConfigCount(c) <= privRequestSession.recogNumber

C2_Witness == \E c \in ConnIds : ConfigCount(c) = 2 /\ connections[c].state = "Connected"

\* The open of connection c was answered 403 on a first attempt.
Answered403(c) == connections[c].phase \in {"stuck", "chained"}

\* C3: after a 403 answer to the first open, fetchOnExpiry has been called
\* exactly once, a new connection with a new id has been dialed for the second
\* open, and the connection future is one that can still resolve.
C3_ExpiryRecovery ==
    \A c \in ConnIds :
        Answered403(c) => /\ calls.fetchOnExpiry = 1
                          /\ numConn > c
                          /\ connections[c].phase # "stuck"

\* C4: a pump that was started before a recognize() call (its
\* startRecogNumber is below the number of that call) sends no Binary audio
\* frame after that call.
C4_Supersession ==
    \A i \in Sent : \A k \in RecogIds :
        ( /\ sent[i].src # 0
          /\ recognitions[k].pc # "none"
          /\ recognitions[sent[i].src].pstart < k )
            => i <= recognitions[k].mark

\* C5: a connectImpl() call made while the stored connection future has
\* neither completed with error nor resolved to a Disconnected connection
\* returns that future, a second call does too, and no connection is dialed
\* or opened by them; no connection was ever dialed over such a stored
\* future, and every connection is opened at most once.
C5_SingleFlight ==
    /\ \A c \in ConnIds : connections[c].over = 0
    /\ calls.open = Cardinality({ c \in ConnIds : connections[c].state # "None" })
    /\ ConnReusable(St) =>
         \A u \in BOOLEAN :
             /\ connectImpl(St, u).ret = privConnectionPromise
             /\ connectImpl(connectImpl(St, u), u).ret = privConnectionPromise
             /\ connectImpl(connectImpl(St, u), u).numConn = numConn
             /\ connectImpl(connectImpl(St, u), u).calls = calls

C5_Witness ==
    \E c \in ConnIds : /\ connections[c].reused
                       /\ connections[c].phase \in {"auth", "open", "ok"}
                       /\ privConnectionPromise = c
                       /\ numConn = 1
                       /\ calls.user = 2

\* C6: the future recognize() returned is resolved successfully only when
\* the receive loop and the pump launched for it have both completed.
C6_ResolvesAfterBothLoops ==
    \A k \in RecogIds :
        recognitions[k].future = "ok" => /\ recognitions[k].loop = "done"
                                         /\ recognitions[k].pump \in {"done", "exited"}

\* The final frame of stopRecognizing(): sendFinalAudio is its only caller.
IsFinalFrame(i) == IsAudio(i) /\ sent[i].body = "null" /\ sent[i].src = 0

\* C7: after the final empty-body audio frame of stopRecognizing() no further
\* frame is sent for that recognition.
C7_NoFrameAfterFinal ==
    \A i \in Sent : IsFinalFrame(i) => \A j \in Sent : j > i => sent[j].rid # sent[i].rid

EosCount(cs) == Cardinality({ i \in 1..Len(cs) : cs[i].reason = "EndOfStream" })

EosCancel == [ reason |-> "EndOfStream", code |-> "NoError",
               rid |-> privRequestSession.requestId,
               recog |-> privRequestSession.recogNumber ]

\* A turn.end for the current request id is processed by the loop of call k
\* while isSpeechEnded and privMustReportEndOfStream are true.
EosTurnEnd(k) ==
    /\ ~privIsDisposed
    /\ privRequestSession.isRecognizing
    /\ privRequestSession.isSpeechEnded
    /\ privMustReportEndOfStream
    /\ MessageArrives(k, "turn.end", privRequestSession.requestId, 0)

\* C8: a turn.end for the current request id processed while isSpeechEnded
\* and privMustReportEndOfStream are true issues exactly one cancelRecognition
\* with reason EndOfStream and code NoError and clears the flag; an EndOfStream
\* cancellation is issued only with the flag armed, and clears it; only a
\* turn.start arms the flag.
C8_EndOfStreamReportedOnce ==
    [][ /\ \A k \in RecogIds :
              EosTurnEnd(k) => /\ cancels' = Append(cancels, EosCancel)
                               /\ ~privMustReportEndOfStream'
        /\ EosCount(cancels') # EosCount(cancels) =>
              /\ cancels' = Append(cancels, EosCancel)
              /\ privRequestSession.isSpeechEnded
              /\ privMustReportEndOfStream
              /\ ~privMustReportEndOfStream'
        /\ (~privMustReportEndOfStream /\ privMustReportEndOfStream') =>
              \E k \in RecogIds : \E r \in SeenRids(recognitions[k].lconn) :
                  MessageArrives(k, "turn.start", r, 0)
      ]_vars

C8_Witness ==
    /\ Len(cancels) > 0
    /\ cancels[Len(cancels)].reason = "EndOfStream"
    /\ cancels[Len(cancels)].code = "NoError"
    /\ EosCount(cancels) = 1
    /\ ~privMustReportEndOfStream

IsContext(i) == sent[i].type = "Text" /\ sent[i].path = "speech.context"

\* C9: at most one speech.context message carrying a given request id is
\* ever sent.
C9_OneContextPerRequestId ==
    \A i \in Sent : \A j \in Sent :
        (i < j /\ IsContext(i) /\ IsContext(j)) => sent[i].rid # sent[j].rid

ContextCount == Cardinality({ i \in Sent : IsContext(i) })

\* C9, amended: speech.context is sent once per configured-connection future
\* and once more per request id minted at a non-final turn.end, so that a
\* request id's context is sent again when a connection is configured anew
\* during its turn: the number of speech.context messages never exceeds the
\* number of configured-connection futures plus the number of request ids
\* minted at a turn.end.
C9_OneContextPerConfigurationAndTurn ==
    ContextCount <= numCfg + (privRequestSession.minted - privRequestSession.recogNumber)

\* The context of one request id was sent on two connections.
C9_Witness ==
    \E i \in Sent : \E j \in Sent :
        /\ i < j /\ IsContext(i) /\ IsContext(j)
        /\ sent[i].rid = sent[j].rid
        /\ sent[i].conn # sent[j].conn

\* The request ids minted at a non-final turn.end: every id that no
\* recognize() call minted.
TurnRids ==
    (1..privRequestSession.minted) \ { recognitions[k].rid : k \in RecogIds }

\* C10: for every request id minted at a non-final turn.end, a speech.context
\* message carrying it is handed to the transport before any audio or
\* telemetry message carrying it.
C10_ContextPerTurn ==
    \A i \in Sent :
        (sent[i].rid \in TurnRids /\ sent[i].path \in {"audio", "telemetry"})
            => \E j \in 1..(i - 1) : IsContext(j) /\ sent[j].rid = sent[i].rid

\* Every fault so far was a drop of a connection in mid-stream.
OnlyMidstreamDrops ==
    calls.faults = Cardinality({ c \in ConnIds : connections[c].midstream })

\* A speech.config send and then a speech.context send had resolved on the
\* connection of message i when message i was handed over.
ConfiguredBefore(i) == sent[i].configured

\* C11: a configured-connection future created because the stored one was
\* observed Disconnected is on a connection with a fresh id, dialed over no
\* live future; with the user calling only recognize() one connection is
\* dialed per fault; an audio frame is sent on a connection only after
\* speech.config and then speech.context have resolved on it; and when every
\* fault was a drop in mid-stream no cancelRecognition call is made with the
\* error code ConnectionFailure or RuntimeError.
C11_TransparentRedial ==
    /\ \A g \in 1..numCfg :
          configurations[g].after = "disconnected" =>
              /\ connections[configurations[g].conn].over = 0
              /\ \A h \in 1..(g - 1) : configurations[h].conn < configurations[g].conn
    /\ calls.user = privRequestSession.recogNumber => numConn <= 1 + calls.faults
    /\ \A i \in Sent : IsAudio(i) => ConfiguredBefore(i)
    /\ OnlyMidstreamDrops =>
          \A i \in 1..Len(cancels) : cancels[i].code \notin {"ConnectionFailure", "RuntimeError"}

\* The pump of the first recognition sends audio on the connection dialed
\* after a drop in mid-stream.
C11_Witness ==
    /\ connections[1].midstream
    /\ OnlyMidstreamDrops
    /\ calls.user = 1
    /\ \E i \in Sent : IsAudio(i) /\ sent[i].conn = 1 /\ sent[i].src = 1
    /\ \E i \in Sent : IsAudio(i) /\ sent[i].conn = 2 /\ sent[i].src = 1 /\ sent[i].body = "data"
    /\ \E g \in 1..numCfg : configurations[g].after = "disconnected" /\ configurations[g].conn = 2

\* C12: cancelRecognition is invoked at most once between two consecutive
\* startNewRecognition calls, and once it was invoked for the current
\* recognition the session is not recognizing.
C12_OneCancelPerRecognition ==
    /\ \A i \in 1..Len(cancels) : \A j \in 1..Len(cancels) :
          i < j => cancels[i].recog # cancels[j].recog
    /\ \A i \in 1..Len(cancels) :
          cancels[i].recog = privRequestSession.recogNumber
              => ~privRequestSession.isRecognizing

\* A pump error fired both error handlers of recognize(), lines 241-243 and
\* 249-251, and one cancelRecognition call was made.
C12_Witness ==
    /\ \E k \in RecogIds : recognitions[k].pump = "failed"
    /\ Len(cancels) = 1
    /\ cancels[1].code = "RuntimeError"

\* The configuration that recognize() call k awaited fails in this step.
ConfigureFails(k) ==
    recognitions[k].pc = "waitCfg" /\ recognitions'[k].pc = "failed"

\* C13: when the configuration awaited by recognize() call k fails (a failed
\* auth, a failed open, a failed speech.config or speech.context send), one
\* cancelRecognition call with reason Error and code ConnectionFailure is
\* made in that step, the future the call returned fails, sessionStarted was
\* not and is not emitted for the recognition of the call, and neither the
\* receive loop nor the pump of the call is launched.
C13_ConfigureFailure ==
    [][ \A k \in RecogIds :
          ConfigureFails(k) =>
              /\ Len(cancels') = Len(cancels) + 1
              /\ cancels'[Len(cancels')].reason = "Error"
              /\ cancels'[Len(cancels')].code = "ConnectionFailure"
              /\ recognitions'[k].future = "err"
              /\ ~events'[k].started
              /\ recognitions'[k].loop = "none"
              /\ recognitions'[k].pump = "none"
      ]_vars

\* The read the pump of call k awaited completes with an error in this step.
ReadFails(k) ==
    /\ recognitions[k].pump = "reading"
    /\ recognitions'[k].pump # "reading"
    /\ calls'.faults = calls.faults + 1

\* C14: a read error of the audio node resolves the pump when isSpeechEnded
\* is true, with no cancelRecognition call and nothing sent; otherwise it
\* rejects the pump, and a recognizing session gets exactly one
\* cancelRecognition call, with reason Error and code RuntimeError, and
\* stops recognizing.
C14_ReadError ==
    [][ \A k \in RecogIds : ReadFails(k) =>
          IF privRequestSession.isSpeechEnded
          THEN /\ recognitions'[k].pump = "done"
               /\ cancels' = cancels
               /\ sent' = sent
               /\ privRequestSession' = privRequestSession
          ELSE /\ recognitions'[k].pump = "failed"
               /\ privRequestSession.isRecognizing =>
                     /\ Len(cancels') = Len(cancels) + 1
                     /\ cancels'[Len(cancels')].reason = "Error"
                     /\ cancels'[Len(cancels')].code = "RuntimeError"
                     /\ cancels'[Len(cancels')].recog = privRequestSession.recogNumber
                     /\ ~privRequestSession'.isRecognizing
               /\ ~privRequestSession.isRecognizing => cancels' = cancels
      ]_vars

\* A read error rejected the pump of a recognition that had uploaded audio,
\* and the session was cancelled with RuntimeError.
C14_Witness ==
    /\ \E k \in RecogIds : /\ recognitions[k].pump = "failed"
                           /\ \E i \in Sent : IsAudio(i) /\ sent[i].src = k
    /\ \A c \in 1..numConn : connections[c].state = "Connected"
    /\ calls.faults = 1
    /\ Len(cancels) = 1
    /\ cancels[1].reason = "Error"
    /\ cancels[1].code = "RuntimeError"
    /\ ~privRequestSession.isRecognizing

\* disconnect() disposed connection c, or left its dispose on the pending
\* future of c (lines 288 and 292-294).
DisconnectDisposes(c) ==
    /\ ~privIsDisposed
    /\ \/ connections[c].disposed
       \/ \E i \in 1..Len(connections[c].waiters) : connections[c].waiters[i].k = "dispose"

\* C15: once disconnect() disposed the stored connection, or left its
\* dispose on the pending future, connectImpl does not hand that connection
\* out again: the stored future is cleared, or failed, or its connection is
\* Disconnected, so that a later connect() dials a new one.
C15_DisconnectThenRedial ==
    \A c \in ConnIds :
        DisconnectDisposes(c) /\ privConnectionPromise = c => ~ConnReusable(St)

\* C16: within a recognition, a speech.enddetected that advances
\* currentTurnAudioOffset advances it by the Offset of the message, and the
\* speechEndDetected event it emits carries that Offset plus the offset
\* accumulated before it, which is the advanced currentTurnAudioOffset: with
\* Offset 10000000 in each of two turns, 10000000 after turn 1 and an event
\* with 20000000 in turn 2.
C16_AccumulatedOffset ==
    [][ /\ privRequestSession'.recogNumber = privRequestSession.recogNumber
        /\ privRequestSession'.currentTurnAudioOffset # privRequestSession.currentTurnAudioOffset
        => /\ \E Offset \in Offsets :
                 privRequestSession'.currentTurnAudioOffset =
                     privRequestSession.currentTurnAudioOffset + Offset
           /\ events'[privRequestSession.recogNumber].endOffset =
                  privRequestSession'.currentTurnAudioOffset
      ]_vars

\* C17: no speechStartDetected, speechEndDetected or sessionStopped of a
\* session is emitted before its sessionStarted; sessionStopped is emitted at
\* most once per session and no speechStartDetected or speechEndDetected
\* follows it.
C17_EventOrder ==
    \A r \in RecogIds : ~events[r].early /\ events[r].stopped <= 1 /\ ~events[r].late


\* C18: a pump whose cycle starts and finds the core disposed, isSpeechEnded
\* true, isRecognizing false or recogNumber changed has its future resolved:
\* no pump is left with its future pending and no cycle to come.
C18_PumpTerminates ==
    \A k \in RecogIds : recognitions[k].pump # "exited"


\* audioStreamNode.read() is invoked by the pump of call k in this step
\* (line 646).
ReadInvoked(k) ==
    recognitions[k].pump # "reading" /\ recognitions'[k].pump = "reading"

\* C19: whenever the pump invokes audioStreamNode.read(), the core is not
\* disposed and the session is recognizing, not speech-ended and not
\* superseded.
C19_ReadOnlyWhileRecognizing ==
    [][ \A k \in RecogIds : ReadInvoked(k) =>
          /\ ~privIsDisposed'
          /\ privRequestSession'.isRecognizing
          /\ ~privRequestSession'.isSpeechEnded
          /\ privRequestSession'.recogNumber = recognitions'[k].pstart
      ]_vars


\* This step hands exactly one message to the transport: a Binary audio
\* frame with a null body, sent by the pump of call k on the connection its
\* cycle captured, with the current request id.
EosFrameSent(k) ==
    /\ Len(sent') = Len(sent) + 1
    /\ SubSeq(sent', 1, Len(sent)) = sent
    /\ sent'[Len(sent')].type = "Binary"
    /\ sent'[Len(sent')].path = "audio"
    /\ sent'[Len(sent')].body = "null"
    /\ sent'[Len(sent')].src = k
    /\ sent'[Len(sent')].conn = recognitions[k].pconn
    /\ sent'[Len(sent')].rid = privRequestSession.requestId

\* The pump of call k sends no audio data after its end-of-stream frame, and
\* a pump that resolved starts no other cycle.
NoAudioAfterEos(k) ==
    /\ \A i, j \in 1..Len(sent') :
          /\ i < j
          /\ sent'[i].src = k /\ sent'[i].path = "audio" /\ sent'[i].body = "null"
          => ~(sent'[j].src = k /\ sent'[j].path = "audio" /\ sent'[j].body = "data")
    /\ recognitions[k].pump = "done" => recognitions'[k].pump = "done"

\* The pump of call k is done with the end of the stream it read: in this
\* step it leaves the read, or the await of deviceInfo that followed it.
EndOfStreamHandled(k) ==
    \/ /\ \E deviceInfo \in DeviceTypes : AudioReadCompletes(k, "end", deviceInfo)
       /\ recognitions'[k].pump # "deviceInfo"
    \/ /\ recognitions[k].pump = "deviceInfo"
       /\ recognitions[k].pchunk = "end"
       /\ recognitions'[k].pump # "deviceInfo"

\* C20: a pump that read the end of the stream sends one Binary audio frame
\* with a null body, calls onSpeechEnded and resolves; the pump starts no
\* other cycle and sends no audio data after it.
C20_EndOfStream ==
    [][ \A k \in RecogIds :
          /\ EndOfStreamHandled(k) =>
                /\ EosFrameSent(k)
                /\ privRequestSession'.isSpeechEnded
                /\ recognitions'[k].pump = "done"
          /\ NoAudioAfterEos(k)
      ]_vars

\* The loop of call k dispatches a turn.end for the current request id in
\* this step. onServiceTurnEndResponse (line 524) changes the session
\* in either case, which is tested first.
TurnEndDispatched(k) ==
    /\ ~privIsDisposed
    /\ privRequestSession.isRecognizing
    /\ privRequestSession' # privRequestSession
    /\ MessageArrives(k, "turn.end", privRequestSession.requestId, 0)

\* After the step, the speech.context for the new turn was sent on the
\* connection of the configured-connection future fetchConnection returned,
\* or waits for that future to complete.
ContextReSent ==
    /\ privConnectionConfigurationPromise' # 0
    /\ IF configurations'[privConnectionConfigurationPromise'].stage = "ok"
       THEN /\ Len(sent') > Len(sent)
            /\ sent'[Len(sent')].path = "speech.context"
            /\ sent'[Len(sent')].rid = privRequestSession'.requestId
            /\ sent'[Len(sent')].conn = configurations'[privConnectionConfigurationPromise'].conn
       ELSE \E i \in 1..Len(configurations'[privConnectionConfigurationPromise'].waiters) :
                configurations'[privConnectionConfigurationPromise'].waiters[i].k = "context"

\* C21: a turn.end for the current request id, when the recognition is not
\* continuous or speech has ended, emits sessionStopped, resolves the loop
\* and sends no speech.context; otherwise it starts a turn with a new request
\* id, emits no sessionStopped, re-sends speech.context on the connection
\* fetchConnection returns and the loop reads on.
C21_TurnEnd ==
    [][ \A k \in RecogIds : TurnEndDispatched(k) =>
          IF ~isContinuousRecognition \/ privRequestSession.isSpeechEnded
          THEN /\ recognitions'[k].loop = "done"
               /\ ~privRequestSession'.isRecognizing
               /\ events'[privRequestSession.recogNumber].stopped =
                      IF events[privRequestSession.recogNumber].stopped < 2
                      THEN events[privRequestSession.recogNumber].stopped + 1 ELSE 2
               /\ \A i \in (Len(sent) + 1)..Len(sent') : sent'[i].path # "speech.context"
          ELSE /\ recognitions'[k].loop \in {"reading", "waitCfg"}
               /\ privRequestSession'.isRecognizing
               /\ privRequestSession'.requestId = privRequestSession.minted + 1
               /\ events' = events
               /\ ContextReSent
      ]_vars

\* A continuous recognition went through a turn.end that re-sent the context
\* for request id 2, and then through a final turn.end.
C21_Witness ==
    /\ isContinuousRecognition
    /\ privRequestSession.recogNumber = 1
    /\ recognitions[1].loop = "done"
    /\ events[1].stopped = 1
    /\ \E i \in Sent : IsContext(i) /\ sent[i].rid = 2 /\ sent[i].st = "ok"


\* C22: processTypeSpecificMessages is never called with a message whose
\* path is turn.start, speech.startdetected, speech.enddetected or turn.end.
C22_TurnEndTerminal ==
    calls.hook \cap HandledPaths = {}


\* C23: a message whose request id differs, letter case aside, from the
\* session's current request id, read by a loop of a recognizing session,
\* changes neither privMustReportEndOfStream nor the session (isRecognizing,
\* request id, offsets; the telemetry listener alone sees it), emits no
\* event, makes no cancellation and no hook call, and the loop goes on to
\* read the next message from the connection fetchConnection returns.
C23_ReceiveFiltering ==
    [][ \A k \in RecogIds, path \in Paths, Offset \in Offsets :
          \A rid \in MessageRids(recognitions[k].lconn) :
              /\ ~privIsDisposed
              /\ privRequestSession.isRecognizing
              /\ toLowerCase(rid) # privRequestSession.requestId
              /\ MessageArrives(k, path, rid, Offset)
              => /\ privMustReportEndOfStream' = privMustReportEndOfStream
                 /\ privRequestSession' = [privRequestSession EXCEPT !.hasTelemetry = TRUE]
                 /\ events' = events
                 /\ cancels' = cancels
                 /\ calls'.hook = calls.hook
                 /\ recognitions'[k].loop \in {"reading", "waitCfg"}
      ]_vars

\* In the second turn of a continuous recognition the loop read a message
\* carrying the request id of the first turn, and only the telemetry
\* listener took note of it.
C23_Witness ==
    /\ privRequestSession.requestId = 2
    /\ privRequestSession.isRecognizing
    /\ privRequestSession.hasTelemetry
    /\ recognitions[1].loop = "reading"
    /\ ~privMustReportEndOfStream
    /\ ~events[1].detected
    /\ calls.hook = {"turn.end"}


\* The open of connection c was answered with a status other than 200.
OpenRefused(c) ==
    /\ connections[c].phase \in {"err", "stuck", "chained"}
    /\ connections[c].state = "Disconnected"

\* C24: once an open was answered with a status other than 200, the
\* connection future has failed, or, after a first 403, continues the one
\* retry made with fetchOnExpiry; fetchOnExpiry is called at most once per
\* connect; and connectImpl does not hand out a failed future again, so that
\* a later connect() starts a fresh attempt.
C24_ExpiryRetryAtMostOnce ==
    /\ \A c \in ConnIds :
          OpenRefused(c) =>
              \/ connections[c].phase = "err"
              \/ /\ connections[c].phase = "chained"
                 /\ ~connections[c].expiry
                 /\ calls.fetchOnExpiry >= 1
    /\ calls.fetchOnExpiry <=
           Cardinality({ c \in ConnIds : Answered403(c) /\ ~connections[c].expiry })
    /\ \A c \in ConnIds :
          connections[c].phase = "err" /\ privConnectionPromise = c => ~ConnReusable(St)


\* The continuation of a failed upload of the pump of call k starts the next
\* cycle in this step: the send fails with the continuation of line 698
\* attached, the timer of line 697 fires after the send failed, or the
\* es6-promise queue is flushed after the continuation of line 687 ran on
\* the failed send.
SendFailureContinues(k) ==
    /\ recognitions[k].pump \in {"timer", "uploading", "queued"}
    /\ recognitions'[k].pump \notin {"timer", "uploading", "queued"}
    /\ sent'[recognitions[k].pidx].st = "fail"

\* C25 as claimed: when the upload of an audio frame failed and the session
\* is recognizing, cancelRecognition is called with reason Error.
C25_SendFailureCancels ==
    [][ \A k \in RecogIds :
          SendFailureContinues(k) /\ privRequestSession.isRecognizing =>
              /\ Len(cancels') = Len(cancels) + 1
              /\ cancels'[Len(cancels')].reason = "Error"
      ]_vars

\* C25 amended: a failed upload is not converted into a cancellation: the
\* pump starts its next cycle as after a successful one, no cancelRecognition
\* call is made and a recognizing session stays recognizing; what is
\* converted is the rejection of the pump (a read error, or no configured
\* connection for a cycle): a recognizing session then gets exactly one
\* cancelRecognition call, with reason Error, and stops recognizing.
C25_SendFailureRedials ==
    [][ \A k \in RecogIds :
          /\ SendFailureContinues(k) =>
                /\ cancels' = cancels
                /\ privRequestSession'.isRecognizing = privRequestSession.isRecognizing
                /\ recognitions'[k].pump \in {"waitCfg", "reading", "exited"}
                /\ recognitions'[k].pump = "exited" <=>
                       ~( /\ ~privIsDisposed
                          /\ ~privRequestSession.isSpeechEnded
                          /\ privRequestSession.isRecognizing
                          /\ privRequestSession.recogNumber = recognitions[k].pstart )
          /\ ( /\ recognitions[k].pump # "failed"
               /\ recognitions'[k].pump = "failed"
               /\ privRequestSession.isRecognizing )
             => /\ Len(cancels') = Len(cancels) + 1
                /\ cancels'[Len(cancels')].reason = "Error"
                /\ ~privRequestSession'.isRecognizing
      ]_vars

\* An upload of the pump of call k failed, the pump went on to a cycle on a
\* new connection, and the recognizing session was not cancelled.
C25_Witness ==
    \E k \in RecogIds :
        /\ recognitions[k].pump = "reading"
        /\ recognitions[k].pconn = 2
        /\ \E i \in Sent : IsAudio(i) /\ sent[i].src = k /\ sent[i].conn = 1 /\ sent[i].st = "fail"
        /\ privRequestSession.isRecognizing
        /\ cancels = << >>

\* The chunk of this cycle, which is not the end, is handed to the transport
\* in this step (lines 671-706).
DataUploaded ==
    /\ pacing.phase \in {"reading", "deviceInfo"}
    /\ pacing'.phase \in {"timer", "uploading"}

\* The send's future completes in this step with the continuation of line
\* 687 attached to it.
RealtimeSendCompletes ==
    /\ pacing.isRealTimeAudioSource
    /\ pacing.phase = "uploading"
    /\ pacing'.uploaded # pacing.uploaded

\* C26: after a chunk that is not the end, a cycle in which the source is
\* realtime arms no timer, so that a source that is realtime in every cycle
\* never has one: the completion of the send queues the next cycle, which
\* then starts with no condition on the clock and with nothing else of the
\* pump done in between; a cycle in which the source is not realtime arms a
\* timer of sendDelay, and the next cycle starts only when the timer has run
\* out and the send is complete; sendDelay is 0 while bytesSent, the chunk
\* included, is at most avgBytesPerSec / 1000 * fastLaneSizeMs, and
\* max(0, nextSendTime - now) afterwards.
C26_Pacing ==
    /\ [](pacing.phase = "queued" => ENABLED NativeJobRuns)
    /\ [][ /\ ( /\ pacing.phase = "reading"
                /\ pacing'.phase \in {"deviceInfo", "timer", "uploading"}
                /\ pacing'.byteLength > 0 ) =>
                 pacing'.sendDelay =
                     IF pacing'.bytesSent <= (pacing.avgBytesPerSec \div 1000) * pacing.fastLaneSizeMs
                     THEN 0
                     ELSE Max(0, pacing.nextSendTime - pacing.now)
           /\ pacing.phase = "deviceInfo" => pacing'.sendDelay = pacing.sendDelay
           /\ DataUploaded =>
                 IF pacing'.isRealTimeAudioSource
                 THEN /\ pacing'.phase = "uploading"
                      /\ pacing'.timers = pacing.timers
                      /\ pacing'.chained = pacing.chained + 1
                 ELSE /\ pacing'.phase = "timer"
                      /\ pacing'.timers = pacing.timers + 1
                      /\ pacing'.chained = pacing.chained
                      /\ pacing'.due = pacing.now + pacing'.sendDelay
           /\ pacing'.timers # pacing.timers =>
                 DataUploaded /\ ~pacing'.isRealTimeAudioSource
           /\ RealtimeSendCompletes =>
                 /\ pacing'.phase = "queued"
                 /\ pacing'.cycles = pacing.cycles
                 /\ pacing'.timers = pacing.timers
           /\ pacing.phase = "queued" =>
                 \/ pacing' = nextCycle(pacing)
                 \/ pacing' = [pacing EXCEPT !.now = @ + 1]
           /\ pacing'.cycles # pacing.cycles =>
                 /\ pacing'.cycles = pacing.cycles + 1
                 /\ pacing'.uploaded \in {"ok", "fail"}
                 /\ IF pacing.isRealTimeAudioSource
                    THEN pacing.phase = "queued"
                    ELSE /\ pacing.phase \in {"timer", "uploading"}
                         /\ pacing.timers > 0
                         /\ pacing.now >= pacing.due
         ]_vars

\* The source was realtime in its first cycle, inside the fast lane: no
\* timer was armed and the second cycle started from the job the completed
\* send queued.  In the second cycle the source is not realtime and past the
\* fast lane: a timer of more than 0 ms is armed and has not run out.
C26_Witness ==
       /\ ~pacing.isRealTimeAudioSource
       /\ pacing.phase = "timer"
       /\ pacing.sendDelay > 0
       /\ pacing.bytesSent > maxSendUnthrottledBytes(pacing)
       /\ pacing.bytesSent - pacing.byteLength <= maxSendUnthrottledBytes(pacing)
       /\ pacing.fastLaneSizeMs > 0
       /\ pacing.cycles = 1
       /\ pacing.chained = 1
       /\ pacing.timers = 1
       /\ pacing.now < pacing.due

\* The telemetry messages handed to the transport or waiting for a
\* configured connection.
RECURSIVE CountWaiters(_, _)
CountWaiters(ws, kind) ==
    IF ws = << >> THEN 0
    ELSE (IF Head(ws).k = kind THEN 1 ELSE 0) + CountWaiters(Tail(ws), kind)

RECURSIVE SumWaiters(_, _, _)
SumWaiters(cfgs, g, kind) ==
    IF g = 0 THEN 0
    ELSE CountWaiters(cfgs[g].waiters, kind) + SumWaiters(cfgs, g - 1, kind)

TelemetryRequested(msgs, cfgs) ==
    Cardinality({ i \in 1..Len(msgs) : msgs[i].path = "telemetry" })
        + SumWaiters(cfgs, MaxCfg, "telemetry")

\* A message or an empty read is delivered to the receive loop of call k.
MessageDelivered(k) ==
    \/ ReadDrains(k)
    \/ \E path \in Paths : \E Offset \in Offsets :
           \E rid \in MessageRids(recognitions[k].lconn) :
               MessageArrives(k, path, rid, Offset)

\* A cycle of the pump of call k starts: readAndUploadCycle passes the test
\* of lines 641-644.
CycleStarts(k) ==
    /\ recognitions[k].pump \notin {"waitCfg", "reading"}
    /\ recognitions'[k].pump \in {"waitCfg", "reading"}

\* Once the core is disposed, a stored configured-connection future that
\* completed successfully holds a disposed connection.
DisposedConnection ==
    ( /\ privIsDisposed
      /\ privConnectionConfigurationPromise # 0
      /\ configurations[privConnectionConfigurationPromise].stage = "ok" )
    => connections[configurations[privConnectionConfigurationPromise].conn].disposed

\* C27: after dispose() the connection of the configured-connection future
\* is disposed once that future has completed successfully; a message
\* delivered to the receive loop causes no recognizer event, no cancellation
\* and no call of the subclass hook, and the loop resolves; the pump starts
\* no cycle; and no telemetry message is sent or queued for sending.
C27_AfterDispose ==
    [][ /\ DisposedConnection'
        /\ privIsDisposed =>
             /\ \A k \in RecogIds :
                   /\ MessageDelivered(k) =>
                         /\ events' = events
                         /\ cancels' = cancels
                         /\ calls'.hook = calls.hook
                         /\ recognitions'[k].loop = "done"
                   /\ ~CycleStarts(k)
             /\ TelemetryRequested(sent', configurations')
                    <= TelemetryRequested(sent, configurations)
      ]_vars


\* C28: no call of disconnect() raises: not before a connection future was
\* stored, and not after a disconnect() that cleared the stored future.
C28_DisconnectNeverRaises == ~calls.threw

====
